---- MODULE Spec2Model ----
(***************************************************************************)
(* A model of the market-resolution and trade-execution core of the        *)
(* Claudesports client:                                                    *)
(*   - src/lib/overtimeApi.ts, lines 1-305: the market cache, fetchApi,    *)
(*     getMarketsForNetwork, findMarketsFromAllNetworks, getActiveMarkets; *)
(*   - src/lib/overtimeApi.ts, lines 215-250: the choice getBigGame makes  *)
(*     in the list of active markets;                                      *)
(*   - src/lib/overtimeApi.ts, lines 307-933: the second copy of the       *)
(*     market functions held by the file, with its mock-data fallbacks;    *)
(*   - src/lib/betUtils.ts: placeBet, which overtimeApi.ts re-exports      *)
(*     (line 3) and the betting form calls.                                *)
(* Every await of the source is a step boundary: an action runs the code   *)
(* from one await to the next.  What the outside world answers (an HTTP    *)
(* response, the wallet, the chain) is chosen with \E when the answer      *)
(* arrives.                                                                *)
(***************************************************************************)
EXTENDS Integers, Sequences, FiniteSets, TLC

----------------------------------------------------------------------------
(* Bounds of the model *)

\* clock ticks the model lets pass
MaxTicks == 4
\* markets in the list getBigGame sorts
MaxMarkets == 3
\* getActiveMarkets calls recorded in one behaviour
MaxCalls == 3
\* concurrent callers of getActiveMarkets (page.tsx and BigGame.tsx)
NumCallers == 2
\* getActiveMarkets calls and clock ticks in a behaviour of overlapping calls
OverlapCalls == 2
OverlapTicks == 1
\* placeBet calls made in one behaviour of overlapping runs
OverlapBets == 2
\* placeBet calls made in one behaviour
MaxBets == 2
\* placeBet runs whose state is kept side by side
NumRuns == 2

----------------------------------------------------------------------------
(* Constants of src/lib/overtimeApi.ts *)

OPTIMISM == 10
ARBITRUM == 42161
BASE == 8453
\* the || 8453 and the "field is absent" value of a number field
Absent == 0

NETWORK_IDS == {OPTIMISM, ARBITRUM, BASE}

CACHE_EXPIRATION == 5 * 60 * 1000

\* the loop starting with Optimism
networks_OptimismFirst == <<OPTIMISM, BASE, ARBITRUM>>
\* the order of findMarketsFromAllNetworks' loop
networks == <<BASE, OPTIMISM, ARBITRUM>>

\* granularity of the model's clock: the boundary now - timestamp =
\* CACHE_EXPIRATION is hit after two ticks
TickMillis == CACHE_EXPIRATION \div 2
\* Date.now() when the page loads: later than CACHE_EXPIRATION after 0
StartMillis == 4 * CACHE_EXPIRATION

Callers == 1..NumCallers

----------------------------------------------------------------------------
(* Market records and the bodies the market-data endpoint can answer with *)

OddsOf(k) == <<[american |-> 100 * k, decimal |-> 1 + k]>>

\* market k of network n as the endpoint serialises it; the endpoint
\* sets networkId on some records and leaves it out on others
Mkt(n, k) ==
    [address |-> n * 10 + k,
     networkId |-> IF k = 1 THEN n ELSE Absent,
     odds |-> OddsOf(k)]

\* response bodies: null, an empty grouping, one sport with one league,
\* one sport with two leagues, and a flat list of market records
Bodies(n) ==
    { [shape |-> "null",    sports |-> <<>>, list |-> <<>>],
      [shape |-> "grouped", sports |-> <<>>, list |-> <<>>],
      [shape |-> "grouped", sports |-> << << <<Mkt(n, 1)>> >> >>, list |-> <<>>],
      [shape |-> "grouped", sports |-> << << <<Mkt(n, 1)>>, <<Mkt(n, 2)>> >> >>, list |-> <<>>],
      [shape |-> "flat",    sports |-> <<>>, list |-> <<Mkt(n, 1)>>] }

\* what one HTTP request ends with: fetch() throws, a non-OK status, a body
\* that response.json() cannot parse, or a parsed body
Failures == {"throw", "notok", "badjson"}
Outcomes(n) ==
    { [kind |-> f, body |-> [shape |-> "null", sports |-> <<>>, list |-> <<>>]] : f \in Failures }
    \cup { [kind |-> "ok", body |-> b] : b \in Bodies(n) }

RECURSIVE Concat(_)
Concat(ss) == IF ss = <<>> THEN <<>> ELSE Head(ss) \o Concat(Tail(ss))

\* getMarketsForNetwork after fetchApi returned `data`: null gives [],
\* otherwise every array found two levels down is concatenated.  Two levels
\* down a grouping are the league lists; two levels down a flat list are the
\* array-valued fields of each market record, which is its odds array.
FlattenMarkets(data) ==
    CASE data.shape = "null" -> <<>>
      [] data.shape = "grouped" -> Concat([i \in 1..Len(data.sports) |-> Concat(data.sports[i])])
      [] data.shape = "flat" -> Concat([i \in 1..Len(data.list) |-> data.list[i].odds])

----------------------------------------------------------------------------
VARIABLES
    clock,          \* Date.now()
    marketsCache,   \* the module-level cache entry
    gam,            \* per caller: the getActiveMarkets call in flight
    history,        \* the getActiveMarkets calls that have returned
    walletChain,    \* the wallet's active chain id
    accounts,       \* the wallet has an account connected to the page
    balance,        \* the signer's USDC balance, in 10^-6 USDC
    allowance,      \* what the signer lets OVERTIME_AMM spend
    txCount,        \* transactions broadcast so far; a hash is its number
    started,        \* placeBet calls made so far
    bet,            \* per run: the placeBet call
    bg,             \* the getBigGame call
    nidRead,        \* the last answer of getCurrentNetworkId
    quote,          \* the getQuote call
    calc,           \* a call of a function that keeps no state
    form,           \* the BettingForm component
    conn            \* the connectWallet call

mvars == <<clock, marketsCache, gam, history>>
bvars == <<walletChain, accounts, balance, allowance, txCount, started, bet>>
gvars == <<bg, nidRead, quote, calc, form, conn>>
vars == <<mvars, bvars, gvars>>

\* pc: where the call waits; now: its Date.now(); idx: the position in
\* `networks` of the network being fetched; reqs: the requests it has sent;
\* yields: the list getMarketsForNetwork returned for each network so far;
\* failed: the networks whose fetch ended in getMarketsForNetwork's catch
IdleCall == [pc |-> "idle", now |-> 0, idx |-> 0, reqs |-> <<>>, yields |-> <<>>,
             failed |-> {}]

MarketsInit ==
    /\ clock = StartMillis
    /\ marketsCache = [timestamp |-> 0, markets |-> <<>>, networkId |-> BASE]
    /\ gam = [c \in Callers |-> IdleCall]
    /\ history = <<>>

\* the age test turned round
CacheValid_Reversed(now) ==
    /\ Len(marketsCache.markets) > 0
    /\ now - marketsCache.timestamp > CACHE_EXPIRATION
\* an entry as old as the bound still counts as fresh
CacheValid_AtBound(now) ==
    /\ Len(marketsCache.markets) > 0
    /\ now - marketsCache.timestamp <= CACHE_EXPIRATION
\* getActiveMarkets' test "use cache if valid"
CacheValid(now) ==
    /\ Len(marketsCache.markets) > 0
    /\ now - marketsCache.timestamp < CACHE_EXPIRATION

\* a list of one market taken for an empty one
FoundMarkets_MoreThanOne(markets) == Len(markets) > 1
\* findMarketsFromAllNetworks' test on one network's list
FoundMarkets(markets) == Len(markets) > 0

\* the networks a call sent a direct request for, in order
NetsOf(reqs) ==
    LET D == SelectSeq(reqs, LAMBDA q : q[2] = "direct")
    IN  [i \in 1..Len(D) |-> D[i][1]]

\* the record of a call that has returned: its Date.now(), the networks it
\* queried, what each of them yielded, and the list the call returned.
\* lastFailed, kept on the latest record only: the fetch of the last
\* network the call queried failed (the failures before that one are in
\* the record of the call while it is in flight).
Returned(start, reqs, yields, failed, markets) ==
    LET nets == NetsOf(reqs) IN
    Append([i \in 1..Len(history) |-> [history[i] EXCEPT !.lastFailed = FALSE]],
           [start |-> start, nets |-> nets, yields |-> yields,
            lastFailed |-> nets # <<>> /\ nets[Len(nets)] \in failed,
            result |-> markets])

\* getActiveMarkets up to its first await: a cache hit returns at once, a
\* miss enters findMarketsFromAllNetworks, getMarketsForNetwork(BASE) and
\* fetchApi, which issues the direct request
CallGetActiveMarkets(c) ==
    /\ gam[c].pc = "idle"
    /\ Len(history) + Cardinality({d \in Callers : gam[d].pc # "idle"}) < MaxCalls
    /\ IF CacheValid(clock)
       THEN /\ history' = Returned(clock, <<>>, <<>>, {}, marketsCache.markets)
            /\ UNCHANGED <<gam, marketsCache>>
       ELSE /\ gam' = [gam EXCEPT ![c] =
                          [pc |-> "direct", now |-> clock, idx |-> 1,
                           reqs |-> << <<networks[1], "direct">> >>,
                           yields |-> <<>>, failed |-> {}]]
            /\ UNCHANGED <<history, marketsCache>>
    /\ UNCHANGED <<clock, bvars, gvars>>

\* a failed fetch answered with a market instead of the empty list
getMarketsForNetwork_Stale(out) ==
    IF out.kind = "ok" THEN FlattenMarkets(out.body)
    ELSE <<Mkt(BASE, 1)>>
\* lines 114-147: getMarketsForNetwork once fetchApi has returned a body
\* or rethrown the failure of its last request; the catch returns []
getMarketsForNetwork(out) ==
    IF out.kind = "ok" THEN FlattenMarkets(out.body) ELSE <<>>

\* the list found is added to the list the cache holds
AfterNetwork_Merge(c, out) ==
    LET i == gam[c].idx
        markets == getMarketsForNetwork(out)
        ys == Append(gam[c].yields, markets)
        fs == IF out.kind = "ok" THEN gam[c].failed
              ELSE gam[c].failed \cup {networks[i]}
    IN
    IF FoundMarkets(markets)
    THEN /\ marketsCache' = [timestamp |-> gam[c].now,
                             markets |-> marketsCache.markets \o markets,
                             networkId |-> networks[i]]
         /\ history' = Returned(gam[c].now, gam[c].reqs, ys, fs, markets)
         /\ gam' = [gam EXCEPT ![c] = IdleCall]
    ELSE IF i < Len(networks)
    THEN /\ gam' = [gam EXCEPT ![c].pc = "direct", ![c].idx = i + 1,
                               ![c].yields = ys, ![c].failed = fs,
                               ![c].reqs = Append(@, <<networks[i + 1], "direct">>)]
         /\ UNCHANGED <<marketsCache, history>>
    ELSE /\ marketsCache' = [timestamp |-> gam[c].now, markets |-> <<>>,
                             networkId |-> BASE]
         /\ history' = Returned(gam[c].now, gam[c].reqs, ys, fs, <<>>)
         /\ gam' = [gam EXCEPT ![c] = IdleCall]

\* what a caller would hold had the call thrown instead of returning
Thrown == <<[exception |-> TRUE]>>

\* a failed fetch is not caught: the call ends with the exception
AfterNetwork_Uncaught(c, out) ==
    LET i == gam[c].idx
        markets == getMarketsForNetwork(out)
        ys == Append(gam[c].yields, markets)
        fs == IF out.kind = "ok" THEN gam[c].failed
              ELSE gam[c].failed \cup {networks[i]}
    IN
    IF out.kind # "ok"
    THEN /\ history' = Returned(gam[c].now, gam[c].reqs, ys, fs, Thrown)
         /\ gam' = [gam EXCEPT ![c] = IdleCall]
         /\ UNCHANGED marketsCache
    ELSE IF FoundMarkets(markets)
    THEN /\ marketsCache' = [timestamp |-> gam[c].now, markets |-> markets,
                             networkId |-> networks[i]]
         /\ history' = Returned(gam[c].now, gam[c].reqs, ys, fs, markets)
         /\ gam' = [gam EXCEPT ![c] = IdleCall]
    ELSE IF i < Len(networks)
    THEN /\ gam' = [gam EXCEPT ![c].pc = "direct", ![c].idx = i + 1,
                               ![c].yields = ys, ![c].failed = fs,
                               ![c].reqs = Append(@, <<networks[i + 1], "direct">>)]
         /\ UNCHANGED <<marketsCache, history>>
    ELSE /\ marketsCache' = [timestamp |-> gam[c].now, markets |-> <<>>,
                             networkId |-> BASE]
         /\ history' = Returned(gam[c].now, gam[c].reqs, ys, fs, <<>>)
         /\ gam' = [gam EXCEPT ![c] = IdleCall]
\* the networkId of the entry is written as the loop moves to a network
AfterNetwork_EarlyNetworkId(c, out) ==
    LET i == gam[c].idx
        markets == getMarketsForNetwork(out)
        ys == Append(gam[c].yields, markets)
        fs == IF out.kind = "ok" THEN gam[c].failed
              ELSE gam[c].failed \cup {networks[i]}
    IN
    IF FoundMarkets(markets)
    THEN /\ marketsCache' = [timestamp |-> gam[c].now, markets |-> markets,
                             networkId |-> networks[i]]
         /\ history' = Returned(gam[c].now, gam[c].reqs, ys, fs, markets)
         /\ gam' = [gam EXCEPT ![c] = IdleCall]
    ELSE IF i < Len(networks)
    THEN /\ gam' = [gam EXCEPT ![c].pc = "direct", ![c].idx = i + 1,
                               ![c].yields = ys, ![c].failed = fs,
                               ![c].reqs = Append(@, <<networks[i + 1], "direct">>)]
         /\ marketsCache' = [marketsCache EXCEPT !.networkId = networks[i + 1]]
         /\ UNCHANGED history
    ELSE /\ marketsCache' = [timestamp |-> gam[c].now, markets |-> <<>>,
                             networkId |-> BASE]
         /\ history' = Returned(gam[c].now, gam[c].reqs, ys, fs, <<>>)
         /\ gam' = [gam EXCEPT ![c] = IdleCall]
\* the entry is written with the default network whatever network
\* yielded the list
AfterNetwork_DefaultNetwork(c, out) ==
    LET i == gam[c].idx
        markets == getMarketsForNetwork(out)
        ys == Append(gam[c].yields, markets)
        fs == IF out.kind = "ok" THEN gam[c].failed
              ELSE gam[c].failed \cup {networks[i]}
    IN
    IF FoundMarkets(markets)
    THEN /\ marketsCache' = [timestamp |-> gam[c].now, markets |-> markets,
                             networkId |-> BASE]
         /\ history' = Returned(gam[c].now, gam[c].reqs, ys, fs, markets)
         /\ gam' = [gam EXCEPT ![c] = IdleCall]
    ELSE IF i < Len(networks)
    THEN /\ gam' = [gam EXCEPT ![c].pc = "direct", ![c].idx = i + 1,
                               ![c].yields = ys, ![c].failed = fs,
                               ![c].reqs = Append(@, <<networks[i + 1], "direct">>)]
         /\ UNCHANGED <<marketsCache, history>>
    ELSE /\ marketsCache' = [timestamp |-> gam[c].now, markets |-> <<>>,
                             networkId |-> BASE]
         /\ history' = Returned(gam[c].now, gam[c].reqs, ys, fs, <<>>)
         /\ gam' = [gam EXCEPT ![c] = IdleCall]

\* the rest of the loop body of findMarketsFromAllNetworks once fetchApi
\* has ended with `out` for networks[idx], and, when the loop ends, the
\* rest of getActiveMarkets: the cache write and the return
AfterNetwork(c, out) ==
    LET i == gam[c].idx
        markets == getMarketsForNetwork(out)
        ys == Append(gam[c].yields, markets)
        fs == IF out.kind = "ok" THEN gam[c].failed
              ELSE gam[c].failed \cup {networks[i]}
    IN
    IF FoundMarkets(markets)
    THEN /\ marketsCache' = [timestamp |-> gam[c].now, markets |-> markets,
                             networkId |-> networks[i]]
         /\ history' = Returned(gam[c].now, gam[c].reqs, ys, fs, markets)
         /\ gam' = [gam EXCEPT ![c] = IdleCall]
    ELSE IF i < Len(networks)
    THEN /\ gam' = [gam EXCEPT ![c].pc = "direct", ![c].idx = i + 1,
                               ![c].yields = ys, ![c].failed = fs,
                               ![c].reqs = Append(@, <<networks[i + 1], "direct">>)]
         /\ UNCHANGED <<marketsCache, history>>
    ELSE /\ marketsCache' = [timestamp |-> gam[c].now, markets |-> <<>>,
                             networkId |-> BASE]
         /\ history' = Returned(gam[c].now, gam[c].reqs, ys, fs, <<>>)
         /\ gam' = [gam EXCEPT ![c] = IdleCall]

\* fetchApi: the direct request ends; a failure issues the proxy request
DirectResponse(c) ==
    /\ gam[c].pc = "direct"
    /\ \E out \in Outcomes(networks[gam[c].idx]) :
         IF out.kind = "ok"
         THEN AfterNetwork(c, out)
         ELSE /\ gam' = [gam EXCEPT ![c].pc = "proxy",
                                    ![c].reqs = Append(@, <<networks[gam[c].idx], "proxy">>)]
              /\ UNCHANGED <<marketsCache, history>>
    /\ UNCHANGED <<clock, bvars, gvars>>

\* fetchApi: the proxy request ends; a failure is rethrown, and
\* getMarketsForNetwork's catch turns it into []
ProxyResponse(c) ==
    /\ gam[c].pc = "proxy"
    /\ \E out \in Outcomes(networks[gam[c].idx]) :
         AfterNetwork(c, out)
    /\ UNCHANGED <<clock, bvars, gvars>>

Tick ==
    /\ clock < StartMillis + MaxTicks * TickMillis
    /\ clock' = clock + TickMillis
    /\ UNCHANGED <<marketsCache, gam, history, bvars, gvars>>

NoCallInFlight == \A c \in Callers : gam[c].pc = "idle"

\* calls that do not overlap: a call starts only when none is in flight
MarketsNext ==
    \/ \E c \in Callers : NoCallInFlight /\ CallGetActiveMarkets(c)
    \/ \E c \in Callers : DirectResponse(c)
    \/ \E c \in Callers : ProxyResponse(c)
    \/ Tick

\* lines 303-305: getCurrentNetworkId reads the networkId of the cache entry
getCurrentNetworkId ==
    /\ nidRead' = marketsCache.networkId
    /\ UNCHANGED <<mvars, bvars, bg, quote, calc, form, conn>>

\* the two components that call on mount: the page and BigGame
Mounted == {c \in Callers : c \in {1, 2}}

\* calls that overlap: a call starts while another awaits its response, as
\* the page and the BigGame component do on mount, and the network id is
\* read at any moment
OverlapNext ==
    \/ \E c \in Mounted :
          /\ Len(history) + Cardinality({d \in Callers : gam[d].pc # "idle"})
                < OverlapCalls
          /\ CallGetActiveMarkets(c)
    \/ \E c \in Callers : DirectResponse(c)
    \/ \E c \in Callers : ProxyResponse(c)
    \/ getCurrentNetworkId
    \/ clock < StartMillis + OverlapTicks * TickMillis /\ Tick

----------------------------------------------------------------------------
(* The fallbacks of src/lib/overtimeApi.ts, lines 307-933: the second copy  *)
(* of the market functions that the file holds.  fetchApi has no proxy      *)
(* request there; a network whose standard endpoint yields no market is     *)
(* tried on the alternative endpoints, and then answered with mock data.    *)

\* lines 473-481
endpointFormats == <<"overtimemarkets", "api.overtimemarkets",
                     "overtimemarketsv2", "proxy">>

\* lines 538-610: the two records of createMockMarkets, odds in hundredths
createMockMarkets(networkId) ==
    << [address |-> 1234, networkId |-> networkId,
        odds |-> <<[american |-> 120, decimal |-> 220],
                   [american |-> 210, decimal |-> 310],
                   [american |-> 250, decimal |-> 350]>>],
       [address |-> 987, networkId |-> networkId,
        odds |-> <<[american |-> -110, decimal |-> 190],
                   [american |-> 110, decimal |-> 210]>>] >>

\* lines 447-450 and 500: ({...market, networkId})
WithNetworkId(markets, networkId) ==
    [i \in 1..Len(markets) |-> [markets[i] EXCEPT !.networkId = networkId]]

\* lines 426-459: getMarketsForNetwork on what fetchApi returned.  A flat
\* list is used as it is, the records of a grouping get the networkId.
StandardMarkets(out, networkId) ==
    IF out.kind # "ok" \/ out.body.shape = "null" THEN <<>>
    ELSE IF out.body.shape = "flat" THEN out.body.list
    ELSE WithNetworkId(FlattenMarkets(out.body), networkId)

\* lines 486-516: the list one alternative endpoint gives
AlternativeMarkets(out, networkId) ==
    IF out.kind # "ok" \/ out.body.shape = "null" THEN <<>>
    ELSE IF out.body.shape = "flat" THEN WithNetworkId(out.body.list, networkId)
    ELSE WithNetworkId(FlattenMarkets(out.body), networkId)

\* line 380: the entry starts on Optimism
FallbackInit ==
    /\ clock = StartMillis
    /\ marketsCache = [timestamp |-> 0, markets |-> <<>>, networkId |-> OPTIMISM]
    /\ gam = [c \in Callers |-> IdleCall]
    /\ history = <<>>

\* lines 629-631 and 660-669: a non-empty list ends the loop, is written
\* to the cache and returned
ReturnMarkets(c, ys, markets) ==
    /\ marketsCache' = [timestamp |-> gam[c].now, markets |-> markets,
                        networkId |-> networks[gam[c].idx]]
    /\ history' = Returned(gam[c].now, gam[c].reqs, ys, {}, markets)
    /\ gam' = [gam EXCEPT ![c] = IdleCall]

\* lines 622-627: the standard endpoint has answered; no market sends the
\* call to the first alternative endpoint
StandardResponse(c) ==
    /\ gam[c].pc = "direct"
    /\ \E out \in Outcomes(networks[gam[c].idx]) :
         LET markets == StandardMarkets(out, networks[gam[c].idx])
             ys == Append(gam[c].yields, markets)
         IN  IF Len(markets) > 0
             THEN ReturnMarkets(c, ys, markets)
             ELSE /\ gam' = [gam EXCEPT ![c].pc = "alt", ![c].yields = ys,
                                        ![c].reqs = Append(@, <<networks[gam[c].idx], "alt">>)]
                  /\ UNCHANGED <<marketsCache, history>>
    /\ UNCHANGED <<clock, bvars, gvars>>

\* the alternative endpoints tried so far by the call
Tried(c) == Len(SelectSeq(gam[c].reqs, LAMBDA q : q[2] = "alt"))

\* lines 483-530: an alternative endpoint has answered; a non-empty list
\* is returned, otherwise the next endpoint is tried, and after the last
\* one the mock markets are returned as the network's markets
AlternativeResponse(c) ==
    /\ gam[c].pc = "alt"
    /\ \E out \in Outcomes(networks[gam[c].idx]) :
         LET markets == AlternativeMarkets(out, networks[gam[c].idx])
             ys == Append(gam[c].yields, markets)
         IN  IF Len(markets) > 0
             THEN ReturnMarkets(c, ys, markets)
             ELSE IF Tried(c) < Len(endpointFormats)
             THEN /\ gam' = [gam EXCEPT ![c].yields = ys,
                                        ![c].reqs = Append(@, <<networks[gam[c].idx], "alt">>)]
                  /\ UNCHANGED <<marketsCache, history>>
             ELSE ReturnMarkets(c, ys, createMockMarkets(networks[gam[c].idx]))
    /\ UNCHANGED <<clock, bvars, gvars>>

FallbackNext ==
    \/ \E c \in Callers : NoCallInFlight /\ CallGetActiveMarkets(c)
    \/ \E c \in Callers : StandardResponse(c)
    \/ \E c \in Callers : AlternativeResponse(c)
    \/ Tick

----------------------------------------------------------------------------
(* Claims about getActiveMarkets *)

Calls == 1..Len(history)
Queried(i) == history[i].nets # <<>>

\* C1 as stated: of the calls made, none overlapping another, whose call
\* times lie less than CACHE_EXPIRATION after the first of them, at most one
\* queries the market-data endpoint and all return the same list.
C1_AsStated ==
    \A i, j \in Calls :
        (i < j /\ history[j].start - history[i].start < CACHE_EXPIRATION)
            => /\ ~(Queried(i) /\ Queried(j))
               /\ history[j].result = history[i].result

\* C1 amended: when the first of the calls fetched a non-empty list from the
\* endpoint, no later call made less than CACHE_EXPIRATION after it queries
\* the endpoint, and each returns the list the first call returned.
C1_FreshWindow ==
    \A i, j \in Calls :
        (/\ i < j
         /\ Queried(i) /\ history[i].result # <<>>
         /\ history[j].start - history[i].start < CACHE_EXPIRATION)
            => /\ ~Queried(j)
               /\ history[j].result = history[i].result

\* a call that fetched a non-empty list, and a later call, made after time
\* has passed but inside the window, that was answered without a request
C1_Witness ==
    \E i, j \in Calls :
        /\ i < j
        /\ Queried(i) /\ history[i].result # <<>>
        /\ history[j].start > history[i].start
        /\ history[j].start - history[i].start < CACHE_EXPIRATION
        /\ ~Queried(j)

----------------------------------------------------------------------------
(* placeBet of src/lib/betUtils.ts *)

\* ethers.parseUnits(amount, 6) on the amount strings the model passes:
\* the value in 10^-6 USDC, or -1 where parseUnits throws
AmountStrings == {"abc", "5", "10"}
parseUnits(amount) ==
    CASE amount = "5" -> 5 * 1000000
      [] amount = "10" -> 10 * 1000000
      [] OTHER -> -1

\* ethers.formatUnits(value, 6) on the balances the model reaches
formatUnits(value) ==
    CASE value = 0 -> "0.0"
      [] value = 5 * 1000000 -> "5.0"
      [] value = 10 * 1000000 -> "10.0"
      [] OTHER -> "?"

\* the chains the wallet can be on: the three of the switch, and one more
Chains == NETWORK_IDS \cup {1}

Runs == 1..NumRuns

\* the odds fields of the market records placeBet is called with, in
\* hundredths (2.2 is 220); a market without a draw has drawOdds 0
MarketOdds ==
    { [homeOdds |-> 220, awayOdds |-> 310, drawOdds |-> 350],
      [homeOdds |-> 190, awayOdds |-> 210, drawOdds |-> Absent] }

NoArgs == [provider |-> FALSE, networkId |-> Absent, addressOk |-> FALSE,
           homeOdds |-> 0, awayOdds |-> 0, drawOdds |-> 0,
           amount |-> "abc", position |-> 0]
NoResult == [success |-> FALSE, message |-> [kind |-> "", a |-> "", b |-> ""],
             txHash |-> 0]
Msg(kind, a, b) == [kind |-> kind, a |-> a, b |-> b]

\* pc: the await the run is at.  log: in order, the calls the run has made
\* on the wallet and the contracts ("getSigner", "getNetwork", "balanceOf",
\* "approve", "trade"), the transactions that were broadcast ("approveTx",
\* "tradeTx") and mined ("approveMined", "tradeMined"), and "return" when
\* placeBet returned a value.  seenBalance: what balanceOf answered.
\* atApprove: the allowance on chain when approve was called (the code does
\* not read it).  minPayout: the fourth argument of the trade call, in
\* 10^-6 USDC.  threw: an exception left placeBet.
IdleRun == [pc |-> "idle", args |-> NoArgs, log |-> <<>>,
            seenBalance |-> -1, atApprove |-> -1, approved |-> 0,
            minPayout |-> -1,
            approveHash |-> 0, tradeHash |-> 0, result |-> NoResult,
            threw |-> FALSE]

BetInit ==
    /\ walletChain \in Chains
    /\ accounts = FALSE
    /\ balance \in {0, 5 * 1000000, 10 * 1000000}
    /\ allowance \in {0, 10 * 1000000}
    /\ txCount = 0
    /\ started = 0
    /\ bet = [r \in Runs |-> IdleRun]

\* line 28: market.networkId || 8453
RequiredNetwork(market) ==
    IF market.networkId = Absent THEN BASE ELSE market.networkId

\* the switch of lines 45-69
Supported(networkId) == networkId \in {BASE, OPTIMISM, ARBITRUM}

\* the test made against Base instead of the market's network
WrongNetwork_Base(chainId, networkId) == chainId # BASE
\* line 38
WrongNetwork(chainId, networkId) == chainId # networkId

\* the comparison turned round
Insufficient_Reversed(bal, amountInWei) == amountInWei < bal
\* line 84
Insufficient(bal, amountInWei) == bal < amountInWei

\* line 95: the amount approve is called with
ApproveAmount(amountInWei) == amountInWei

\* parseFloat(amount) on the amount strings that pass parseUnits
parseFloat(amount) == parseUnits(amount) \div 1000000

\* line 90, in hundredths of a USDC: the stake times the odds of the side
expectedPayout(amount, position, market) ==
    parseFloat(amount) * (IF position = 0 THEN market.homeOdds ELSE market.awayOdds)

\* the payout cut by 5% a second time
slippageAdjustedPayout_Twice(expected) == (expected * 95 * 95) \div 100
\* line 91, in 10^-4 USDC: expectedPayout * 0.95
slippageAdjustedPayout(expected) == expected * 95

\* line 104: parseUnits(slippageAdjustedPayout.toString(), 6), where the
\* string has at most six decimals: 10^-4 USDC become 10^-6 USDC
payoutInWei(adjusted) == adjusted * 100

\* the exception rethrown instead of returned
Catch_Rethrow(run, message) ==
    [run EXCEPT !.pc = "done", !.threw = TRUE]
\* a failed confirmation wait sends the trade again
Catch_Retry(run, message) ==
    IF run.pc = "tradeWait"
    THEN [run EXCEPT !.pc = "trade", !.log = Append(@, "trade")]
    ELSE [run EXCEPT !.pc = "done", !.log = Append(@, "return"),
                     !.result = [success |-> FALSE, message |-> message,
                                 txHash |-> 0]]
\* lines 116-122: the catch turns whatever was thrown into a returned value
Catch(run, message) ==
    [run EXCEPT !.pc = "done", !.log = Append(@, "return"),
                !.result = [success |-> FALSE, message |-> message,
                            txHash |-> 0]]

\* the hash of the approval reported
Success_ApproveHash(run, hash) ==
    [run EXCEPT !.pc = "done", !.log = @ \o <<"tradeMined", "return">>,
                !.result = [success |-> TRUE,
                            message |-> Msg("Bet placed successfully!", "", ""),
                            txHash |-> run.approveHash]]
\* lines 109-115: the receipt of the trade, and the value returned
Success(run, hash) ==
    [run EXCEPT !.pc = "done", !.log = @ \o <<"tradeMined", "return">>,
                !.result = [success |-> TRUE,
                            message |-> Msg("Bet placed successfully!", "", ""),
                            txHash |-> hash]]

\* the trade requested without waiting for the approval to be mined
ApprovalSent_NoWait(run, hash) ==
    [run EXCEPT !.pc = "trade", !.log = @ \o <<"approveTx", "trade">>,
                !.approveHash = hash]
\* lines 95-96: approve has resolved with the broadcast transaction, and
\* the run waits for it to be mined
ApprovalSent(run, hash) ==
    [run EXCEPT !.pc = "approveWait", !.log = Append(@, "approveTx"),
                !.approveHash = hash]

Fail(r, message) == bet' = [bet EXCEPT ![r] = Catch(@, message)]

\* the balance is not read: the approval is asked for at once
Goto_NoBalanceCheck(r, pc, calls) ==
    IF pc = "balance"
    THEN bet' = [bet EXCEPT ![r].pc = "approve",
                            ![r].log = Append(@, "approve"),
                            ![r].approved = parseUnits(bet[r].args.amount)]
    ELSE bet' = [bet EXCEPT ![r].pc = pc, ![r].log = @ \o calls]
\* the run goes on to its next await, having made `calls`
Goto(r, pc, calls) ==
    bet' = [bet EXCEPT ![r].pc = pc, ![r].log = @ \o calls]

AtRest(r) == bet[r].pc \in {"idle", "done"}
NoRunInFlight == \A r \in Runs : AtRest(r)
\* a new call takes the first record that is not in use
FirstFree(r) == AtRest(r) /\ \A q \in Runs : q < r => ~AtRest(q)

\* lines 18-32: the provider test, the imports, and getSigner().  The
\* records of the runs that have returned are dropped: their callers have
\* consumed the results.
PlaceBet(r) ==
    /\ FirstFree(r)
    /\ started < MaxBets
    /\ started' = started + 1
    /\ \E provider \in BOOLEAN, networkId \in Chains \cup {Absent},
          addressOk \in BOOLEAN, odds \in MarketOdds,
          amount \in AmountStrings, position \in 0..2 :
         LET args == [provider |-> provider, networkId |-> networkId,
                      addressOk |-> addressOk, homeOdds |-> odds.homeOdds,
                      awayOdds |-> odds.awayOdds, drawOdds |-> odds.drawOdds,
                      amount |-> amount, position |-> position]
             new == IF ~provider
                    THEN Catch([IdleRun EXCEPT !.args = args],
                               Msg("Wallet not connected", "", ""))
                    ELSE [IdleRun EXCEPT !.pc = "signer", !.args = args,
                                         !.log = <<"getSigner">>]
         IN  bet' = [q \in Runs |->
                        IF q = r THEN new
                        ELSE IF bet[q].pc = "done" THEN IdleRun ELSE bet[q]]
    /\ UNCHANGED <<walletChain, accounts, balance, allowance, txCount, mvars, gvars>>

\* line 32 resolves or rejects; line 35 asks for the network.  getSigner
\* resolves with the wallet's account: the one connected, or the one the
\* user connects when the wallet asks; it rejects when the wallet fails or
\* the user declines.
SignerResponse(r) ==
    /\ bet[r].pc = "signer"
    /\ \/ Goto(r, "network", <<"getNetwork">>) /\ accounts' = TRUE
       \/ Fail(r, Msg("wallet", "", "")) /\ UNCHANGED accounts
    /\ UNCHANGED <<walletChain, balance, allowance, txCount, started, mvars, gvars>>

\* lines 35-83: the network test, the addresses, getAddress, parseUnits,
\* then balanceOf
NetworkResponse(r) ==
    /\ bet[r].pc = "network"
    /\ LET networkId == RequiredNetwork(bet[r].args) IN
       \/ Fail(r, Msg("rpc", "", ""))
       \/ IF WrongNetwork(walletChain, networkId)
          THEN Fail(r, Msg("Please switch to the correct network to place this bet", "", ""))
          ELSE IF ~Supported(networkId)
          THEN Fail(r, Msg("Unsupported network", "", ""))
          ELSE IF ~bet[r].args.addressOk
          THEN Fail(r, Msg("invalid address", "", ""))
          ELSE IF parseUnits(bet[r].args.amount) < 0
          THEN Fail(r, Msg("invalid decimal value", "", ""))
          ELSE Goto(r, "balance", <<"balanceOf">>)
    /\ UNCHANGED <<walletChain, accounts, balance, allowance, txCount, started, mvars, gvars>>

\* lines 83-95: the balance test, the payout arithmetic, then approve
BalanceResponse(r) ==
    /\ bet[r].pc = "balance"
    /\ LET amountInWei == parseUnits(bet[r].args.amount) IN
       \/ Fail(r, Msg("rpc", "", ""))
       \/ IF Insufficient(balance, amountInWei)
          THEN bet' = [bet EXCEPT ![r] =
                         Catch([@ EXCEPT !.seenBalance = balance],
                               Msg("Insufficient USDC balance",
                                   formatUnits(balance), bet[r].args.amount))]
          ELSE bet' = [bet EXCEPT ![r].pc = "approve",
                                  ![r].log = Append(@, "approve"),
                                  ![r].seenBalance = balance,
                                  ![r].atApprove = allowance,
                                  ![r].approved = ApproveAmount(amountInWei)]
    /\ UNCHANGED <<walletChain, accounts, balance, allowance, txCount, started, mvars, gvars>>

\* line 95 resolves (the approval is broadcast) or rejects
ApproveResponse(r) ==
    /\ bet[r].pc = "approve"
    /\ \/ /\ bet' = [bet EXCEPT ![r] = ApprovalSent(@, txCount + 1)]
          /\ txCount' = txCount + 1
       \/ /\ Fail(r, Msg("user rejected", "", ""))
          /\ UNCHANGED txCount
    /\ UNCHANGED <<walletChain, accounts, balance, allowance, started, mvars, gvars>>

\* line 96 resolves (mined) or rejects (reverted).  Once it is mined the
\* arguments of the trade are evaluated (lines 100-107) and the trade is
\* requested.  The payout is a double: where its decimal string has more
\* than six decimals, parseUnits throws and no trade is requested.
ApproveWait(r) ==
    /\ bet[r].pc = "approveWait"
    /\ \/ /\ allowance' = bet[r].approved
          /\ \/ bet' = [bet EXCEPT
                          ![r].pc = "trade",
                          ![r].log = @ \o <<"approveMined", "trade">>,
                          ![r].minPayout =
                             payoutInWei(slippageAdjustedPayout(
                                expectedPayout(bet[r].args.amount,
                                               bet[r].args.position,
                                               bet[r].args)))]
             \/ bet' = [bet EXCEPT ![r] =
                          Catch([@ EXCEPT !.log = Append(@, "approveMined")],
                                Msg("invalid decimal value", "", ""))]
       \/ /\ Fail(r, Msg("transaction failed", "", ""))
          /\ UNCHANGED allowance
    /\ UNCHANGED <<walletChain, accounts, balance, txCount, started, mvars, gvars>>

\* line 100 resolves (the trade is broadcast) or rejects; line 109 waits
TradeResponse(r) ==
    /\ bet[r].pc = "trade"
    /\ \/ /\ bet' = [bet EXCEPT ![r].pc = "tradeWait",
                                ![r].log = Append(@, "tradeTx"),
                                ![r].tradeHash = txCount + 1]
          /\ txCount' = txCount + 1
       \/ /\ Fail(r, Msg("user rejected", "", ""))
          /\ UNCHANGED txCount
    /\ UNCHANGED <<walletChain, accounts, balance, allowance, started, mvars, gvars>>

\* line 109 resolves (the trade is mined: the market maker has pulled the
\* stake out of the allowance) or rejects (reverted)
TradeWait(r) ==
    /\ bet[r].pc = "tradeWait"
    /\ LET amountInWei == parseUnits(bet[r].args.amount) IN
       \/ /\ amountInWei <= balance /\ amountInWei <= allowance
          /\ balance' = balance - amountInWei
          /\ allowance' = allowance - amountInWei
          /\ bet' = [bet EXCEPT ![r] = Success(@, bet[r].tradeHash)]
       \/ /\ Fail(r, Msg("transaction failed", "", ""))
          /\ UNCHANGED <<balance, allowance>>
    /\ UNCHANGED <<walletChain, accounts, txCount, started, mvars, gvars>>

\* runs that do not overlap: placeBet is called when no run is in flight
BetNext ==
    \/ \E r \in Runs : NoRunInFlight /\ PlaceBet(r)
    \/ \E r \in Runs : SignerResponse(r)
    \/ \E r \in Runs : NetworkResponse(r)
    \/ \E r \in Runs : BalanceResponse(r)
    \/ \E r \in Runs : ApproveResponse(r)
    \/ \E r \in Runs : ApproveWait(r)
    \/ \E r \in Runs : TradeResponse(r)
    \/ \E r \in Runs : TradeWait(r)

\* runs that overlap: placeBet is called again while a run is in flight,
\* with the same provider and for a market of the wallet's network, as a
\* second press of the form's button does
BetOverlapNext ==
    \/ \E r \in Runs :
          /\ r <= 2 /\ started < OverlapBets
          /\ PlaceBet(r)
          /\ bet'[r].args.provider /\ bet'[r].args.addressOk
          /\ bet'[r].args.networkId = walletChain
          /\ bet'[r].args.position = 0
          /\ bet'[r].args.homeOdds = 220
    \/ \E r \in Runs : SignerResponse(r)
    \/ \E r \in Runs : NetworkResponse(r)
    \/ \E r \in Runs : BalanceResponse(r)
    \/ \E r \in Runs : ApproveResponse(r)
    \/ \E r \in Runs : ApproveWait(r)
    \/ \E r \in Runs : TradeResponse(r)
    \/ \E r \in Runs : TradeWait(r)

----------------------------------------------------------------------------
(* getBigGame of src/lib/overtimeApi.ts, lines 215-250: the choice it makes *)
(* in the list getActiveMarkets returned                                    *)

\* Math.floor(Date.now() / 1000)
NowSeconds(millis) == millis \div 1000

\* the status of a market record: 0 is open, the others are not
Statuses == 0..2
\* the maturity of a market record, in seconds: absent, up to two seconds
\* before the time of the call, that time, up to two seconds after it
Maturities == {Absent} \cup {NowSeconds(StartMillis) + d : d \in -2..2}

\* a list getActiveMarkets can have returned: n records with the status
\* and maturity fields f gives them; the address of a record is its place
\* in the list
ActiveList(n, f) ==
    [i \in 1..n |-> [address |-> i, status |-> f[i].status,
                     maturity |-> f[i].maturity]]

\* getCurrentNetworkId has not been called
NoRead == Absent

\* no function call is being followed.  op: the function called; arg: its
\* argument; out: what it returned; back: what the converse function
\* returned for out; pc: "idle", "applied", "inverted".
NoCalc == [pc |-> "rest", op |-> "", arg |-> 0, out |-> 0, back |-> 0]

\* the BettingForm as it mounts (src/unnamed/part_001, lines 20-23).
\* selectedTeam, betAmount, isPlacingBet, betResult: its state; importing:
\* the handleSubmit runs awaiting the import of lib/web3; placing: those
\* awaiting placeBet; submits: the submit events delivered so far.
IdleForm == [selectedTeam |-> "null", betAmount |-> "", isPlacingBet |-> FALSE,
             betResult |-> "null", importing |-> 0, placing |-> 0, submits |-> 0]

\* connectWallet has not been called.  pc: the request awaited; requests:
\* the wallet requests made; switched: what switchToBaseChain returned
\* ("none" while it has not); result: "none", "account" or "thrown".
IdleConn == [pc |-> "idle", provider |-> FALSE, requests |-> <<>>,
             switched |-> "none", result |-> "none", close |-> "none"]

\* getQuote has not been called.  pc: "idle", "post" while a request is
\* awaited, "done"; idx: the endpoint asked; answers: what the endpoints
\* asked so far answered; returned: "none", then "value"; value: the
\* totalQuote of the object returned.
NoQuote == [decimal |-> Absent, american |-> Absent]
IdleQuote == [pc |-> "idle", homeOdds |-> Absent, awayOdds |-> Absent,
              position |-> 0, idx |-> 0, answers |-> <<>>,
              returned |-> "none", value |-> NoQuote]

NoMarket == [address |-> 0, status |-> 0, maturity |-> 0]

\* pc: "idle" before the call, "done" after it.  markets: what
\* getActiveMarkets answers.  now: the seconds the comparator read.
\* returned: "none" before the call returns, then "null" or "market".
\* The list is any of up to MaxMarkets records.
BigGameInit ==
    \E n \in 0..MaxMarkets :
        \E f \in [1..n -> [status : Statuses, maturity : Maturities]] :
            /\ bg = [pc |-> "idle", markets |-> ActiveList(n, f), now |-> 0,
                     returned |-> "none", topMarket |-> NoMarket]
            /\ nidRead = NoRead
            /\ quote = IdleQuote
            /\ calc = NoCalc
            /\ form = IdleForm /\ conn = IdleConn

\* x || 0 on a number field; an absent field is the model's 0
OrZero(x) == IF x = Absent THEN 0 ELSE x

\* the comparator without its status test
Compare_MaturityOnly(a, b, now) ==
    LET timeToGameA == OrZero(a.maturity) - now
        timeToGameB == OrZero(b.maturity) - now
    IN  IF timeToGameA > 0 /\ timeToGameB <= 0 THEN -1
        ELSE IF timeToGameA <= 0 /\ timeToGameB > 0 THEN 1
        ELSE timeToGameA - timeToGameB
\* the comparator without its two tests on games that have started
Compare_NoStartedTest(a, b, now) ==
    LET statusDiff == OrZero(a.status) - OrZero(b.status)
        timeToGameA == OrZero(a.maturity) - now
        timeToGameB == OrZero(b.maturity) - now
    IN  IF statusDiff # 0 THEN statusDiff
        ELSE timeToGameA - timeToGameB
\* lines 226-239: the comparator passed to sort
Compare(a, b, now) ==
    LET statusDiff == OrZero(a.status) - OrZero(b.status)
        timeToGameA == OrZero(a.maturity) - now
        timeToGameB == OrZero(b.maturity) - now
    IN  IF statusDiff # 0 THEN statusDiff
        ELSE IF timeToGameA > 0 /\ timeToGameB <= 0 THEN -1
        ELSE IF timeToGameA <= 0 /\ timeToGameB > 0 THEN 1
        ELSE timeToGameA - timeToGameB

\* Array.prototype.sort is stable: a record goes before the first record it
\* compares below, and after every record it compares equal to
RECURSIVE InsertSorted(_, _, _)
InsertSorted(m, sorted, now) ==
    IF sorted = <<>> THEN <<m>>
    ELSE IF Compare(m, Head(sorted), now) < 0 THEN <<m>> \o sorted
    ELSE <<Head(sorted)>> \o InsertSorted(m, Tail(sorted), now)

\* line 226: [...markets].sort(comparator)
RECURSIVE sortedMarkets(_, _)
sortedMarkets(markets, now) ==
    IF markets = <<>> THEN <<>>
    ELSE InsertSorted(markets[Len(markets)],
                      sortedMarkets(SubSeq(markets, 1, Len(markets) - 1), now),
                      now)

\* lines 215-250: null for an empty list, else the first record of the
\* sorted copy.  The comparator reads the clock at every comparison; the
\* model reads it once for the sort.
GetBigGame ==
    /\ bg.pc = "idle"
    /\ LET now == NowSeconds(clock) IN
       bg' = IF Len(bg.markets) = 0
             THEN [bg EXCEPT !.pc = "done", !.now = now, !.returned = "null"]
             ELSE [bg EXCEPT !.pc = "done", !.now = now, !.returned = "market",
                             !.topMarket = sortedMarkets(bg.markets, now)[1]]
    /\ UNCHANGED <<mvars, bvars, nidRead, quote, calc, form, conn>>

BigGameNext == GetBigGame

\* src/unnamed/part_009, lines 207-219: the comparator of the revision of
\* getBigGame that sorts by start time alone
CompareInPlace(a, b, now) ==
    LET timeToGameA == a.maturity - now
        timeToGameB == b.maturity - now
    IN  IF timeToGameA > 0 /\ timeToGameB <= 0 THEN -1
        ELSE IF timeToGameA <= 0 /\ timeToGameB > 0 THEN 1
        ELSE IF timeToGameA > 0 /\ timeToGameB > 0 THEN timeToGameA - timeToGameB
        ELSE timeToGameB - timeToGameA

RECURSIVE InsertInPlace(_, _, _)
InsertInPlace(m, sorted, now) ==
    IF sorted = <<>> THEN <<m>>
    ELSE IF CompareInPlace(m, Head(sorted), now) < 0 THEN <<m>> \o sorted
    ELSE <<Head(sorted)>> \o InsertInPlace(m, Tail(sorted), now)

\* part_009 line 207: markets.sort(comparator), on the array that
\* getActiveMarkets returned, which is the array the cache entry holds
RECURSIVE sortInPlace(_, _)
sortInPlace(markets, now) ==
    IF markets = <<>> THEN <<>>
    ELSE InsertInPlace(markets[Len(markets)],
                       sortInPlace(SubSeq(markets, 1, Len(markets) - 1), now),
                       now)

\* part_009 lines 194-226: null for an empty list, else the list is sorted
\* where it is and its first record returned
GetBigGameInPlace ==
    /\ bg.pc = "idle"
    /\ LET now == NowSeconds(clock)
           sorted == sortInPlace(bg.markets, now)
       IN  bg' = IF Len(bg.markets) = 0
                 THEN [bg EXCEPT !.pc = "done", !.now = now, !.returned = "null"]
                 ELSE [bg EXCEPT !.pc = "done", !.now = now, !.returned = "market",
                                 !.markets = sorted, !.topMarket = sorted[1]]
    /\ UNCHANGED <<mvars, bvars, nidRead, quote, calc, form, conn>>

BigGameInPlaceNext == GetBigGameInPlace

----------------------------------------------------------------------------
(* getQuote of src/lib/overtimeApi.ts, lines 732-805 *)

\* lines 757-761: the endpoints the request is posted to, in order
quoteEndpoints == <<"overtimemarkets.xyz/api/v2", "api.overtimemarkets.xyz/v2",
                    "/api/proxy">>

\* what a pricing endpoint can answer with status ok: a quote with its
\* payout multiplier (times 100), or a body without one
QuoteBodies ==
    {[decimal |-> d, american |-> d - 100] : d \in {205, 220}} \cup {NoQuote}
\* the ends of one request: fetch throws, the status is not ok, json()
\* throws, or a body
QuoteOutcomes ==
    {[kind |-> f, body |-> NoQuote] : f \in Failures}
    \cup {[kind |-> "ok", body |-> b] : b \in QuoteBodies}

\* lines 783-790: the quote made from the odds the market record holds (the
\* records of the model have no odds array, so homeOdds or awayOdds)
mockQuote(q) ==
    LET odds == IF q.position = 0 THEN q.homeOdds ELSE q.awayOdds
    IN  [decimal |-> odds, american |-> odds - 100]

QuoteInit ==
    /\ quote = IdleQuote
    /\ bg = [pc |-> "idle", markets |-> <<>>, now |-> 0, returned |-> "none",
             topMarket |-> NoMarket]
    /\ nidRead = NoRead
    /\ calc = NoCalc
    /\ form = IdleForm /\ conn = IdleConn

\* lines 738-774: the trade data is built and the first request posted
GetQuote ==
    /\ quote.pc = "idle"
    /\ \E odds \in MarketOdds, position \in 0..2 :
         quote' = [IdleQuote EXCEPT !.pc = "post", !.homeOdds = odds.homeOdds,
                                    !.awayOdds = odds.awayOdds,
                                    !.position = position, !.idx = 1]
    /\ UNCHANGED <<mvars, bvars, bg, nidRead, calc, form, conn>>

\* lines 763-790: a request ends.  A body is returned as it is; a failure
\* posts to the next endpoint, and after the last one the mock quote is
\* returned.
QuoteResponse ==
    /\ quote.pc = "post"
    /\ \E out \in QuoteOutcomes :
         LET answers == Append(quote.answers, out) IN
         IF out.kind = "ok"
         THEN quote' = [quote EXCEPT !.pc = "done", !.answers = answers,
                                     !.returned = "value", !.value = out.body]
         ELSE IF quote.idx < Len(quoteEndpoints)
         THEN quote' = [quote EXCEPT !.idx = @ + 1, !.answers = answers]
         ELSE quote' = [quote EXCEPT !.pc = "done", !.answers = answers,
                                     !.returned = "value",
                                     !.value = mockQuote(quote)]
    /\ UNCHANGED <<mvars, bvars, bg, nidRead, calc, form, conn>>

QuoteNext == GetQuote \/ QuoteResponse

----------------------------------------------------------------------------
(* The functions that keep no state: the flattening of getMarketsForNetwork *)
(* (src/lib/overtimeApi.ts, lines 127-142) and the odds conversions of      *)
(* src/lib/betUtils.ts, lines 130-149.  A JavaScript number that is not an  *)
(* integer is a fraction [num, den] in lowest terms with den > 0.           *)

\* greatest American price and greatest decimal price, in hundredths, that
\* the conversions are given
MaxAmerican == 300
MaxDecimalCents == 400

\* league lists, sports and flat lists made of the records of network n
LeagueLists(n) == {<<>>, <<Mkt(n, 1)>>, <<Mkt(n, 2)>>, <<Mkt(n, 1), Mkt(n, 2)>>}
SportsOf(n) ==
    {<<l>> : l \in LeagueLists(n)}
    \cup {<<l, m>> : l \in LeagueLists(n), m \in LeagueLists(n)}
FlatLists(n) ==
    LeagueLists(n) \cup {<<Mkt(n, 2), Mkt(n, 1)>>,
                         <<Mkt(n, 1), Mkt(n, 2), Mkt(n, 1)>>}
\* the bodies getMarketsForNetwork is given: groupings of one or two sports
\* and flat lists of up to three records
FlattenInputs ==
    UNION {
      {[shape |-> "grouped", sports |-> <<sp>>, list |-> <<>>] : sp \in SportsOf(n)}
      \cup {[shape |-> "grouped", sports |-> <<sp, <<<<Mkt(n, 2)>>>> >>, list |-> <<>>] :
                sp \in SportsOf(n)}
      \cup {[shape |-> "flat", sports |-> <<>>, list |-> l] : l \in FlatLists(n)}
      : n \in NETWORK_IDS}

FlattenInit ==
    \E data \in FlattenInputs :
        calc = [NoCalc EXCEPT !.pc = "idle", !.op = "getMarketsForNetwork",
                              !.arg = data]

\* lines 127-142 on a body fetchApi returned
Flatten ==
    /\ calc.pc = "idle" /\ calc.op = "getMarketsForNetwork"
    /\ calc' = [calc EXCEPT !.pc = "applied",
                            !.out = getMarketsForNetwork([kind |-> "ok", body |-> calc.arg])]
    /\ UNCHANGED <<mvars, bvars, bg, nidRead, quote, form, conn>>

FlattenNext == Flatten

\* fetchApi of src/lib/overtimeApi.ts, lines 59-107, followed on its own.
\* arg: the network of the url and the method of the options; back: the
\* requests sent so far, each with what it ended with once it has ended;
\* out: the body returned, or Thrown.
FetchInit ==
    \E n \in NETWORK_IDS, method \in {"GET", "POST"} :
        calc = [NoCalc EXCEPT !.pc = "idle", !.op = "fetchApi",
                              !.arg = [networkId |-> n, method |-> method],
                              !.back = <<>>]

\* lines 59-73: the direct request is sent
FetchApi ==
    /\ calc.pc = "idle" /\ calc.op = "fetchApi"
    /\ calc' = [calc EXCEPT !.pc = "direct"]
    /\ UNCHANGED <<mvars, bvars, bg, nidRead, quote, form, conn>>

\* a failed direct request ends the call with its error
FetchDirect_NoProxy ==
    /\ calc.pc = "direct"
    /\ \E res \in Outcomes(calc.arg.networkId) :
         LET sent == Append(calc.back, [request |-> "direct", kind |-> res.kind]) IN
         IF res.kind = "ok"
         THEN calc' = [calc EXCEPT !.pc = "returned", !.back = sent, !.out = res.body]
         ELSE calc' = [calc EXCEPT !.pc = "thrown", !.back = sent, !.out = Thrown]
    /\ UNCHANGED <<mvars, bvars, bg, nidRead, quote, form, conn>>
\* lines 63-95: the direct request ends.  Its body is returned; a rejected
\* fetch, a status that is not ok and a body json() cannot parse all land
\* in the inner catch, which sends the proxy request.
FetchDirect ==
    /\ calc.pc = "direct"
    /\ \E res \in Outcomes(calc.arg.networkId) :
         LET sent == Append(calc.back, [request |-> "direct", kind |-> res.kind]) IN
         IF res.kind = "ok"
         THEN calc' = [calc EXCEPT !.pc = "returned", !.back = sent, !.out = res.body]
         ELSE calc' = [calc EXCEPT !.pc = "proxy", !.back = sent]
    /\ UNCHANGED <<mvars, bvars, bg, nidRead, quote, form, conn>>

\* lines 88-106: the proxy request ends.  Its body is returned; a failure
\* reaches the outer catch, which rethrows it.
FetchProxy ==
    /\ calc.pc = "proxy"
    /\ \E res \in Outcomes(calc.arg.networkId) :
         LET sent == Append(calc.back, [request |-> "proxy", kind |-> res.kind]) IN
         IF res.kind = "ok"
         THEN calc' = [calc EXCEPT !.pc = "returned", !.back = sent, !.out = res.body]
         ELSE calc' = [calc EXCEPT !.pc = "thrown", !.back = sent, !.out = Thrown]
    /\ UNCHANGED <<mvars, bvars, bg, nidRead, quote, form, conn>>

FetchNext == FetchApi \/ FetchDirect \/ FetchProxy

RECURSIVE GCD(_, _)
GCD(a, b) == IF b = 0 THEN a ELSE GCD(b, a % b)
Abs(x) == IF x < 0 THEN -x ELSE x
\* the number num / den
Frac(num, den) ==
    LET g == GCD(Abs(num), Abs(den))
        sg == IF den < 0 THEN -1 ELSE 1
    IN  [num |-> sg * (num \div g), den |-> sg * (den \div g)]

\* the integer part is kept instead of the nearest integer
Round_Truncate(p, q) ==
    LET n == Abs(p) \div Abs(q) IN IF (p < 0) # (q < 0) THEN -n ELSE n
\* Math.round(p / q): the nearest integer, a half going up
Round(p, q) ==
    IF q > 0 THEN (2 * p + q) \div (2 * q) ELSE (-2 * p - q) \div (-2 * q)

\* the negative branch without Math.abs
americanToDecimal_NoAbs(americanOdds) ==
    IF americanOdds > 0
    THEN Frac(100 + americanOdds, 100)
    ELSE Frac(americanOdds + 100, americanOdds)
\* betUtils.ts lines 130-136
americanToDecimal(americanOdds) ==
    IF americanOdds > 0
    THEN Frac(100 + americanOdds, 100)
    ELSE Frac(Abs(americanOdds) + 100, Abs(americanOdds))

\* betUtils.ts lines 143-149
decimalToAmerican(decimalOdds) ==
    IF decimalOdds.num >= 2 * decimalOdds.den
    THEN Round((decimalOdds.num - decimalOdds.den) * 100, decimalOdds.den)
    ELSE Round(-100 * decimalOdds.den, decimalOdds.num - decimalOdds.den)

\* the integer American prices and the decimal prices the conversions are
\* given: the decimals are the hundredths above 1 and the decimals of the
\* American prices
AmericanPrices ==
    {a \in -MaxAmerican..MaxAmerican : a >= 100 \/ a <= -100}
DecimalPrices ==
    {Frac(c, 100) : c \in 101..MaxDecimalCents}
    \cup {americanToDecimal(a) : a \in AmericanPrices}

OddsInit ==
    \/ \E a \in AmericanPrices :
         calc = [NoCalc EXCEPT !.pc = "idle", !.op = "americanToDecimal", !.arg = a]
    \/ \E d \in DecimalPrices :
         calc = [NoCalc EXCEPT !.pc = "idle", !.op = "decimalToAmerican", !.arg = d]

\* the function is applied to the argument
Apply ==
    /\ calc.pc = "idle"
    /\ \/ /\ calc.op = "americanToDecimal"
          /\ calc' = [calc EXCEPT !.pc = "applied", !.out = americanToDecimal(calc.arg)]
       \/ /\ calc.op = "decimalToAmerican"
          /\ calc' = [calc EXCEPT !.pc = "applied", !.out = decimalToAmerican(calc.arg)]
    /\ UNCHANGED <<mvars, bvars, bg, nidRead, quote, form, conn>>

\* the converse function is applied to the result
Invert ==
    /\ calc.pc = "applied"
    /\ \/ /\ calc.op = "americanToDecimal"
          /\ calc' = [calc EXCEPT !.pc = "inverted", !.back = decimalToAmerican(calc.out)]
       \/ /\ calc.op = "decimalToAmerican"
          /\ calc' = [calc EXCEPT !.pc = "inverted", !.back = americanToDecimal(calc.out)]
    /\ UNCHANGED <<mvars, bvars, bg, nidRead, quote, form, conn>>

OddsNext == Apply \/ Invert

----------------------------------------------------------------------------
(* The BettingForm component of src/unnamed/part_001.  React renders the    *)
(* state set in an event handler before the next event is delivered, so the *)
(* button's disabled attribute is read off the state.                       *)

\* submit events delivered to the form in one behaviour
MaxSubmits == 3

\* what handleAmountChange lets the amount field hold
FormAmounts == {"", "0", "5"}
\* parseFloat(betAmount) on those strings ('' is tested before it is parsed)
AmountOf(betAmount) == IF betAmount = "5" THEN 5 ELSE 0

\* the button stays enabled while a bet is being placed
Disabled_NotWhilePlacing(f) ==
    \/ f.selectedTeam = "null"
    \/ f.betAmount = ""
    \/ AmountOf(f.betAmount) <= 0
\* line 267: the disabled attribute of the submit button
Disabled(f) ==
    \/ f.selectedTeam = "null"
    \/ f.betAmount = ""
    \/ AmountOf(f.betAmount) <= 0
    \/ f.isPlacingBet

FormInit == form = IdleForm

\* lines 72-75
handleTeamSelect ==
    /\ \E team \in {"home", "away"} :
         form' = [form EXCEPT !.selectedTeam = team, !.betResult = "null"]
    /\ UNCHANGED <<mvars, bvars, bg, nidRead, quote, calc, conn>>

\* lines 77-83
handleAmountChange ==
    /\ \E value \in FormAmounts : form' = [form EXCEPT !.betAmount = value]
    /\ UNCHANGED <<mvars, bvars, bg, nidRead, quote, calc, conn>>

\* lines 89-105: a submit event, which the browser delivers only while the
\* submit button is enabled, and handleSubmit up to its first await
handleSubmit ==
    /\ ~Disabled(form)
    /\ form.submits < MaxSubmits
    /\ form' = IF \/ form.selectedTeam = "null" \/ form.betAmount = ""
                  \/ AmountOf(form.betAmount) <= 0
               THEN [form EXCEPT !.betResult = "invalid", !.submits = @ + 1]
               ELSE [form EXCEPT !.isPlacingBet = TRUE, !.betResult = "null",
                                 !.importing = @ + 1, !.submits = @ + 1]
    /\ UNCHANGED <<mvars, bvars, bg, nidRead, quote, calc, conn>>

\* lines 104-122: the import resolves and placeBet is called, or the import
\* rejects and the catch and the finally run
ImportResponse ==
    /\ form.importing > 0
    /\ \/ form' = [form EXCEPT !.importing = @ - 1, !.placing = @ + 1]
       \/ form' = [form EXCEPT !.importing = @ - 1, !.betResult = "error",
                               !.isPlacingBet = FALSE]
    /\ UNCHANGED <<mvars, bvars, bg, nidRead, quote, calc, conn>>

\* lines 117-140: placeBet settles; the result is shown, a success clears
\* the amount and the team, and the finally resets isPlacingBet
PlaceBetSettled ==
    /\ form.placing > 0
    /\ \/ form' = [form EXCEPT !.placing = @ - 1, !.betResult = "success",
                               !.betAmount = "", !.selectedTeam = "null",
                               !.isPlacingBet = FALSE]
       \/ \E failure \in {"failure", "error"} :
            form' = [form EXCEPT !.placing = @ - 1, !.betResult = failure,
                                 !.isPlacingBet = FALSE]
    /\ UNCHANGED <<mvars, bvars, bg, nidRead, quote, calc, conn>>

FormNext ==
    \/ handleTeamSelect
    \/ handleAmountChange
    \/ handleSubmit
    \/ ImportResponse
    \/ PlaceBetSettled

----------------------------------------------------------------------------
(* connectWallet and switchToBaseChain of src/unnamed/part_003 (lib/web3).  *)
(* walletChain is the chain the wallet is on; the wallet reports it as a    *)
(* hex string.                                                              *)

\* eth_chainId's answer for the chains of the model
HexOf(chain) ==
    CASE chain = 8453 -> "0x2105"
      [] chain = 10 -> "0xa"
      [] chain = 42161 -> "0xa4b1"
      [] OTHER -> "0x1"

\* DEFAULT_CHAIN.chainId
DEFAULT_CHAIN_ID == "0x2105"

\* lines 138-146: getChainId answers the wallet's chain, or '' when the
\* request is rejected
ChainIdAnswers == {HexOf(walletChain), ""}

ConnectInit == conn = IdleConn /\ walletChain \in Chains

\* what a connect request leaves alone
ConnectFrame ==
    UNCHANGED <<mvars, balance, allowance, txCount, started, bet,
                bg, nidRead, quote, calc, form>>

\* lines 63-69 and 75-78: connectWallet up to its first await; getProvider
\* makes the provider when there is none
ConnectWallet ==
    /\ conn.pc \in {"idle", "done", "thrown"}
    /\ conn' = [pc |-> "accounts", provider |-> TRUE,
                requests |-> <<"eth_requestAccounts">>,
                switched |-> "none", result |-> "none", close |-> "none"]
    /\ UNCHANGED <<walletChain, accounts>>
    /\ ConnectFrame

\* lines 78-81 and 152-155: eth_requestAccounts ends; a rejection is
\* rethrown, otherwise switchToBaseChain starts and asks for the chain id
AccountsResponse ==
    /\ conn.pc = "accounts"
    /\ \/ /\ conn' = [conn EXCEPT !.pc = "chainId",
                                   !.requests = Append(@, "eth_chainId")]
          /\ accounts' = TRUE
       \/ /\ conn' = [conn EXCEPT !.pc = "thrown", !.result = "error"]
          /\ UNCHANGED accounts
    /\ UNCHANGED walletChain
    /\ ConnectFrame

\* lines 155-168: the chain id arrives; on Base switchToBaseChain returns
\* true and connectWallet returns accounts[0], otherwise the switch is
\* requested
ChainIdResponse ==
    /\ conn.pc = "chainId"
    /\ \E currentChainId \in ChainIdAnswers :
         conn' = IF currentChainId = DEFAULT_CHAIN_ID
                 THEN [conn EXCEPT !.pc = "done", !.switched = "true",
                                   !.result = "account"]
                 ELSE [conn EXCEPT !.pc = "switch",
                                   !.requests = Append(@, "wallet_switchEthereumChain")]
    /\ UNCHANGED <<walletChain, accounts>>
    /\ ConnectFrame

\* lines 164-199: wallet_switchEthereumChain ends.  It resolves with the
\* wallet on Base or with the wallet where it was; a rejection with code
\* 4902 asks for the chain to be added, any other is rethrown
SwitchResponse ==
    /\ conn.pc = "switch"
    /\ \/ /\ \E chain \in {BASE, walletChain} : walletChain' = chain
          /\ conn' = [conn EXCEPT !.pc = "verify",
                                   !.requests = Append(@, "eth_chainId")]
       \/ /\ conn' = [conn EXCEPT !.pc = "add",
                                   !.requests = Append(@, "wallet_addEthereumChain")]
          /\ UNCHANGED walletChain
       \/ /\ conn' = [conn EXCEPT !.pc = "thrown", !.result = "error"]
          /\ UNCHANGED walletChain
    /\ UNCHANGED accounts
    /\ ConnectFrame

\* lines 175-190: wallet_addEthereumChain ends
AddResponse ==
    /\ conn.pc = "add"
    /\ \/ /\ \E chain \in {BASE, walletChain} : walletChain' = chain
          /\ conn' = [conn EXCEPT !.pc = "verify",
                                   !.requests = Append(@, "eth_chainId")]
       \/ /\ conn' = [conn EXCEPT !.pc = "thrown", !.result = "error"]
          /\ UNCHANGED walletChain
    /\ UNCHANGED accounts
    /\ ConnectFrame

\* lines 170-172, 188-190 and 80-82: the chain id read after the switch
\* arrives and switchToBaseChain returns the comparison; connectWallet
\* awaits it without reading the value and returns accounts[0]
VerifyResponse ==
    /\ conn.pc = "verify"
    /\ \E newChainId \in ChainIdAnswers :
         conn' = [conn EXCEPT !.pc = "done",
                              !.switched = IF newChainId = DEFAULT_CHAIN_ID
                                           THEN "true" ELSE "false",
                              !.result = "account"]
    /\ UNCHANGED <<walletChain, accounts>>
    /\ ConnectFrame

\* lines 93-102: disconnectWallet, between two connect requests; close
\* ends the wallet's session and the provider is dropped, or close rejects
\* and the provider is kept
disconnectWallet ==
    /\ conn.pc \in {"idle", "done", "thrown"}
    /\ conn.provider
    /\ \/ /\ conn' = [conn EXCEPT !.provider = FALSE, !.close = "closed"]
          /\ accounts' = FALSE
       \/ /\ conn' = [conn EXCEPT !.close = "failed"]
          /\ UNCHANGED accounts
    /\ UNCHANGED walletChain
    /\ ConnectFrame

ConnectNext ==
    \/ ConnectWallet
    \/ disconnectWallet
    \/ AccountsResponse
    \/ ChainIdResponse
    \/ SwitchResponse
    \/ AddResponse
    \/ VerifyResponse

----------------------------------------------------------------------------
(* The specifications.  The market functions, placeBet and the choice of   *)
(* getBigGame share no state, so each is checked with the others at rest.  *)

BigGameAtRest ==
    /\ bg = [pc |-> "idle", markets |-> <<>>, now |-> 0, returned |-> "none",
             topMarket |-> NoMarket]
    /\ nidRead = NoRead
    /\ quote = IdleQuote
    /\ calc = NoCalc
    /\ form = IdleForm /\ conn = IdleConn

BetAtRest ==
    /\ walletChain = BASE /\ accounts = FALSE /\ balance = 0 /\ allowance = 0
    /\ txCount = 0 /\ started = 0
    /\ bet = [r \in Runs |-> IdleRun]

InitMarkets == MarketsInit /\ BetAtRest /\ BigGameAtRest
SpecMarkets == InitMarkets /\ [][MarketsNext]_vars

InitBet == BetInit /\ MarketsInit /\ BigGameAtRest
SpecBet == InitBet /\ [][BetNext]_vars

\* placeBet where the wallet and the RPC node answer every call made on
\* them, so every await on a wallet or contract call ends.  Nothing is
\* assumed of the two waits for a transaction to be mined (lines 96 and
\* 109): the chain may never confirm.
WalletAnswers ==
    /\ WF_vars(\E r \in Runs : SignerResponse(r))
    /\ WF_vars(\E r \in Runs : NetworkResponse(r))
    /\ WF_vars(\E r \in Runs : BalanceResponse(r))
    /\ WF_vars(\E r \in Runs : ApproveResponse(r))
    /\ WF_vars(\E r \in Runs : TradeResponse(r))
SpecBetLive == InitBet /\ [][BetNext]_vars /\ WalletAnswers

SpecBetOverlap == InitBet /\ [][BetOverlapNext]_vars

InitBigGame == BigGameInit /\ MarketsInit /\ BetAtRest
SpecBigGame == InitBigGame /\ [][BigGameNext]_vars

InitBigGameInPlace == BigGameInit /\ MarketsInit /\ BetAtRest
SpecBigGameInPlace == InitBigGameInPlace /\ [][BigGameInPlaceNext]_vars

InitOverlap == MarketsInit /\ BetAtRest /\ BigGameAtRest
SpecOverlap == InitOverlap /\ [][OverlapNext]_vars

InitQuote == QuoteInit /\ MarketsInit /\ BetAtRest
SpecQuote == InitQuote /\ [][QuoteNext]_vars

OthersAtRest ==
    /\ bg = [pc |-> "idle", markets |-> <<>>, now |-> 0, returned |-> "none",
             topMarket |-> NoMarket]
    /\ nidRead = NoRead
    /\ quote = IdleQuote
    /\ form = IdleForm /\ conn = IdleConn

InitForm ==
    /\ FormInit /\ conn = IdleConn /\ calc = NoCalc
    /\ bg = [pc |-> "idle", markets |-> <<>>, now |-> 0, returned |-> "none",
             topMarket |-> NoMarket]
    /\ nidRead = NoRead /\ quote = IdleQuote
    /\ MarketsInit /\ BetAtRest
SpecForm == InitForm /\ [][FormNext]_vars

InitConnect ==
    /\ ConnectInit
    /\ accounts = FALSE /\ balance = 0 /\ allowance = 0
    /\ txCount = 0 /\ started = 0
    /\ bet = [r \in Runs |-> IdleRun]
    /\ bg = [pc |-> "idle", markets |-> <<>>, now |-> 0, returned |-> "none",
             topMarket |-> NoMarket]
    /\ nidRead = NoRead /\ quote = IdleQuote /\ calc = NoCalc
    /\ form = IdleForm
    /\ MarketsInit
SpecConnect == InitConnect /\ [][ConnectNext]_vars

InitFetch == FetchInit /\ OthersAtRest /\ MarketsInit /\ BetAtRest
SpecFetch == InitFetch /\ [][FetchNext]_vars

InitFlatten == FlattenInit /\ OthersAtRest /\ MarketsInit /\ BetAtRest
SpecFlatten == InitFlatten /\ [][FlattenNext]_vars

InitOdds == OddsInit /\ OthersAtRest /\ MarketsInit /\ BetAtRest
SpecOdds == InitOdds /\ [][OddsNext]_vars

InitFallback == FallbackInit /\ BetAtRest /\ BigGameAtRest
SpecFallback == InitFallback /\ [][FallbackNext]_vars

----------------------------------------------------------------------------
(* Claims about placeBet *)

InLog(r, e) == \E i \in 1..Len(bet[r].log) : bet[r].log[i] = e
Count(r, e) == Cardinality({i \in 1..Len(bet[r].log) : bet[r].log[i] = e})
\* the place of the first e in the log, 0 when there is none
Pos(r, e) ==
    IF InLog(r, e)
    THEN CHOOSE i \in 1..Len(bet[r].log) :
            /\ bet[r].log[i] = e
            /\ \A k \in 1..(i - 1) : bet[r].log[k] # e
    ELSE 0
Done(r) == bet[r].pc = "done"
Stake(r) == parseUnits(bet[r].args.amount)
ContractCalls == {"balanceOf", "allowance", "approve", "approveTx", "trade", "tradeTx"}

\* C3: a run made while the wallet's chain differs from the market's network
\* (market.networkId, 8453 when the record has none) calls neither the token
\* contract nor the market maker, and returns success = false.
C3_WrongNetworkNoContractCall ==
    \A r \in Runs :
        (bet[r].pc # "idle" /\ walletChain # RequiredNetwork(bet[r].args))
            => /\ \A e \in ContractCalls : ~InLog(r, e)
               /\ Done(r) => ~bet[r].result.success

\* a run that read the chain, found it was not the market's, and returned
C3_Witness ==
    \E r \in Runs :
        /\ Done(r) /\ InLog(r, "getNetwork")
        /\ bet[r].args.networkId = OPTIMISM /\ walletChain = BASE
        /\ bet[r].result.message.kind =
              "Please switch to the correct network to place this bet"
        /\ ~bet[r].result.success

\* C4: a run whose balanceOf answer is less than the stake returns
\* success = false with a message carrying the balance and the stake, and
\* has asked for no approval and no trade.
C4_InsufficientBalance ==
    \A r \in Runs :
        (bet[r].seenBalance >= 0 /\ bet[r].seenBalance < Stake(r))
            => /\ Done(r) /\ ~bet[r].result.success
               /\ bet[r].result.message.a = formatUnits(bet[r].seenBalance)
               /\ bet[r].result.message.b = bet[r].args.amount
               /\ \A e \in {"approve", "approveTx", "trade", "tradeTx"} : ~InLog(r, e)

\* a balance of 5 against a stake of 10
C4_Witness ==
    \E r \in Runs :
        /\ bet[r].seenBalance = 5 * 1000000 /\ bet[r].args.amount = "10"
        /\ Done(r) /\ ~bet[r].result.success
        /\ bet[r].result.message = Msg("Insufficient USDC balance", "5.0", "10")

\* C5: a trade is broadcast only in a run that obtained a quote from the
\* pricing endpoint before.
C5_TradeOnlyAfterQuote ==
    \A r \in Runs :
        InLog(r, "tradeTx")
            => (InLog(r, "getQuote") /\ Pos(r, "getQuote") < Pos(r, "tradeTx"))

C7_FailuresAreReturned ==
    \A r \in Runs :
        /\ ~bet[r].threw
        /\ Count(r, "return") = (IF Done(r) THEN 1 ELSE 0)
        /\ (Done(r) /\ ~InLog(r, "tradeMined"))
              => (~bet[r].result.success /\ bet[r].result.message.kind # "")

\* a run that failed at the last step (the trade reverted) and returned
\* the failure
C7_Witness ==
    \E r \in Runs :
        /\ Done(r) /\ InLog(r, "tradeTx") /\ ~bet[r].result.success
        /\ bet[r].result.message.kind = "transaction failed"
        /\ Count(r, "return") = 1

\* C8: an approval is broadcast only when the allowance on chain, at the
\* time approve is called, is less than the stake.
C8_ApproveOnlyWhenNeeded ==
    \A r \in Runs :
        InLog(r, "approveTx") => bet[r].atApprove < Stake(r)

\* C9: when a trade is requested, an approval for at least the stake was
\* broadcast and mined before; after a rejected or reverted approval no
\* trade is requested.
C9_ApprovalBeforeTrade ==
    \A r \in Runs :
        InLog(r, "trade")
            => /\ 0 < Pos(r, "approveTx")
               /\ Pos(r, "approveTx") < Pos(r, "approveMined")
               /\ Pos(r, "approveMined") < Pos(r, "trade")
               /\ bet[r].approved >= Stake(r)

\* a trade broadcast after the approval of the stake was mined
C9_Witness ==
    \E r \in Runs :
        /\ InLog(r, "tradeTx") /\ InLog(r, "approveMined")
        /\ bet[r].approved = Stake(r)

\* C10: a run broadcasts at most one approval and at most one trade, asks
\* for each at most once, and does nothing after it has returned.
C10_NoRetry ==
    \A r \in Runs :
        /\ \A e \in {"approve", "approveTx", "trade", "tradeTx"} : Count(r, e) <= 1
        /\ InLog(r, "return") => Pos(r, "return") = Len(bet[r].log)

\* a run whose trade reverted after it was broadcast
C10_Witness ==
    \E r \in Runs :
        /\ Done(r) /\ ~bet[r].result.success
        /\ Count(r, "tradeTx") = 1 /\ Count(r, "approveTx") = 1
        /\ ~InLog(r, "tradeMined")

\* C11: every run that has broadcast its trade transaction eventually
\* returns a result to its caller, whether or not the chain ever confirms
\* a transaction.
C11_TradeSubmittedReturns ==
    \A r \in Runs : (bet[r].pc = "tradeWait") ~> Done(r)

\* the calls and events of a run, without the return
StepsOf(r) == SelectSeq(bet[r].log, LAMBDA e : e # "return")
IsPrefix(s, t) == Len(s) <= Len(t) /\ \A i \in 1..Len(s) : s[i] = t[i]

SideOdds(r) ==
    CASE bet[r].args.position = 0 -> bet[r].args.homeOdds
      [] bet[r].args.position = 1 -> bet[r].args.awayOdds
      [] OTHER -> bet[r].args.drawOdds
\* the payout at those odds for the stake, in 10^-6 USDC (the stakes of the
\* model are whole USDC, so the divisions are exact)
SidePayout(r) == (Stake(r) \div 100) * SideOdds(r)

\* C13: the minimum payout passed to the trade call is the payout at the
\* odds of the chosen side (home, away or draw) for the stake, cut once by
\* 5%, and never more than that payout.
C13_MinPayout ==
    \A r \in Runs :
        InLog(r, "trade")
            => /\ bet[r].minPayout = (SidePayout(r) \div 100) * 95
               /\ bet[r].minPayout <= SidePayout(r)

----------------------------------------------------------------------------
(* Claims about getBigGame *)

Listed == {bg.markets[i] : i \in 1..Len(bg.markets)}
\* the lowest status in the list, and the records that have it
BestStatus ==
    CHOOSE st \in Statuses :
        /\ \E m \in Listed : m.status = st
        /\ \A m \in Listed : m.status >= st
BestOf == {m \in Listed : m.status = BestStatus}
NotStarted(m) == m.maturity > bg.now

\* C14: when the list holds a market with status 0, getBigGame returns a
\* market of the list with status 0, whatever the maturities are.
C14_OpenFirst ==
    (bg.pc = "done" /\ \E m \in Listed : m.status = 0)
        => /\ bg.returned = "market"
           /\ bg.topMarket \in Listed
           /\ bg.topMarket.status = 0

\* the only open market is last in the list and started two seconds ago;
\* the others start in a second
C14_Witness ==
    /\ bg.pc = "done" /\ Len(bg.markets) >= 3
    /\ bg.markets[1].status = 2 /\ bg.markets[1].maturity = bg.now + 1
    /\ bg.markets[2].status = 1 /\ bg.markets[2].maturity = bg.now + 1
    /\ bg.markets[3].status = 0 /\ bg.markets[3].maturity = bg.now - 2
    /\ bg.topMarket = bg.markets[3]

C16_MostRecentlyStarted ==
    (bg.pc = "done" /\ Listed # {} /\ \A m \in BestOf : ~NotStarted(m))
        => /\ bg.topMarket \in BestOf
           /\ \A m \in BestOf : bg.topMarket.maturity >= m.maturity

----------------------------------------------------------------------------
(* Claims about the aggregation pass *)

\* C17: a call in which every request ended with no market returns the
\* empty list, the outcome no call that found markets has, and no call
\* returns a market record that no endpoint sent.
C17_NoMarketsIsFailure ==
    \A i \in Calls :
        /\ (Queried(i) /\ \A k \in 1..Len(history[i].yields) :
                              history[i].yields[k] = <<>>)
              => history[i].result = <<>>
        /\ \A k \in 1..Len(history[i].result) :
              \A n \in NETWORK_IDS, j \in 1..2 :
                  history[i].result[k] # createMockMarkets(n)[j]

InFlight(c) == gam[c].pc # "idle"

\* C18: a network whose fetch failed counts as a network without markets:
\* its list is empty, the pass has gone on to the next network in the
\* order of priority, and a pass ends without markets only after the last
\* network.
C18_FailureIsNoMarkets ==
    /\ \A c \in Callers : \A k \in 1..Len(gam[c].yields) :
          (InFlight(c) /\ <<BASE, OPTIMISM, ARBITRUM>>[k] \in gam[c].failed)
             => /\ gam[c].yields[k] = <<>>
                /\ Len(NetsOf(gam[c].reqs)) > k
                /\ NetsOf(gam[c].reqs)[k + 1] = <<BASE, OPTIMISM, ARBITRUM>>[k + 1]
    /\ \A i \in Calls :
          /\ history[i].lastFailed
                => /\ history[i].yields[Len(history[i].yields)] = <<>>
                   /\ history[i].result = <<>>
                   /\ history[i].nets = <<BASE, OPTIMISM, ARBITRUM>>
          /\ \A k \in 1..Len(history[i].yields) :
                (k < 3 /\ history[i].yields[k] = <<>>)
                   => /\ Len(history[i].nets) > k
                      /\ history[i].nets[k + 1] = <<BASE, OPTIMISM, ARBITRUM>>[k + 1]

\* the fetches of Base and of Optimism have failed and the pass is waiting
\* for Arbitrum
C18_Witness ==
    \E c \in Callers :
        /\ gam[c].failed = {BASE, OPTIMISM}
        /\ gam[c].yields = << <<>>, <<>> >>
        /\ gam[c].reqs[Len(gam[c].reqs)] = <<ARBITRUM, "direct">>

\* C19: a pass queries Base, Optimism, Arbitrum in this order; while it is
\* in flight one request is outstanding, the last it sent, and every
\* network before that one has completed.
C19_OneAtATime ==
    /\ \A c \in Callers :
          InFlight(c)
             => /\ NetsOf(gam[c].reqs) = SubSeq(<<BASE, OPTIMISM, ARBITRUM>>, 1, gam[c].idx)
                /\ Len(gam[c].yields) = gam[c].idx - 1
                /\ gam[c].reqs[Len(gam[c].reqs)] =
                      <<(<<BASE, OPTIMISM, ARBITRUM>>)[gam[c].idx], gam[c].pc>>
                /\ \A j \in 2..Len(gam[c].reqs) :
                      \/ /\ gam[c].reqs[j][2] = "proxy"
                         /\ gam[c].reqs[j - 1] = <<gam[c].reqs[j][1], "direct">>
                      \/ /\ gam[c].reqs[j][2] = "direct"
                         /\ gam[c].reqs[j][1] # gam[c].reqs[j - 1][1]
    /\ \A i \in Calls :
          /\ history[i].nets =
                SubSeq(<<BASE, OPTIMISM, ARBITRUM>>, 1, Len(history[i].nets))
          /\ Len(history[i].yields) = Len(history[i].nets)

\* a pass waiting for the proxy request of Arbitrum, both requests of Base
\* and of Optimism having ended
C19_Witness ==
    \E c \in Callers :
        /\ gam[c].pc = "proxy" /\ gam[c].idx = 3
        /\ gam[c].reqs = << <<BASE, "direct">>, <<BASE, "proxy">>,
                            <<OPTIMISM, "direct">>, <<OPTIMISM, "proxy">>,
                            <<ARBITRUM, "direct">>, <<ARBITRUM, "proxy">> >>
        /\ Len(gam[c].yields) = 2

\* the last call that queried the endpoint, 0 when none has
LastQueried ==
    IF \E i \in Calls : Queried(i)
    THEN CHOOSE i \in Calls : Queried(i) /\ \A j \in Calls : Queried(j) => j <= i
    ELSE 0

\* C20: the list in the cache is the list one fetch of one network
\* returned, that of the last pass that has ended, and when it holds
\* markets that network is marketsCache.networkId.
C20_SingleNetworkEntry ==
    /\ \E b \in Bodies(marketsCache.networkId) :
          marketsCache.markets = FlattenMarkets(b)
    /\ IF LastQueried = 0
       THEN marketsCache.markets = <<>>
       ELSE LET h == history[LastQueried] IN
            /\ marketsCache.markets = h.yields[Len(h.yields)]
            /\ marketsCache.markets # <<>>
                  => marketsCache.networkId = h.nets[Len(h.nets)]

\* the cache holds the two markets of Optimism after it held Base's
C20_Witness ==
    /\ marketsCache.markets = <<Mkt(OPTIMISM, 1), Mkt(OPTIMISM, 2)>>
    /\ marketsCache.networkId = OPTIMISM
    /\ \E i \in Calls : history[i].result = <<Mkt(BASE, 1)>>

----------------------------------------------------------------------------
(* Claims about the cache entry *)

\* a call returns in this step
Returns == Len(history') = Len(history) + 1
JustReturned == history'[Len(history')]

\* C21: a pass in which no network yielded a market leaves the cache entry
\* as it was: its markets, its networkId and its timestamp.
C21_EmptyPassKeepsEntry ==
    [][(Returns /\ JustReturned.nets # <<>> /\ JustReturned.result = <<>>)
          => marketsCache' = marketsCache]_vars

\* the entry a pass writes as it returns
EntryOf(h) ==
    [timestamp |-> h.start, markets |-> h.result,
     networkId |-> IF h.result # <<>> THEN h.nets[Len(h.nets)] ELSE BASE]

\* the entry of the pass that returned last, or the entry the module
\* starts with when no pass has returned
LastEntry ==
    LET passes == {i \in 1..Len(history) : history[i].nets # <<>>} IN
    IF passes = {}
    THEN [timestamp |-> 0, markets |-> <<>>, networkId |-> BASE]
    ELSE EntryOf(history[CHOOSE i \in passes : \A j \in passes : j <= i])

\* C22: under overlapping calls the cache entry is always the whole entry
\* of one pass, the pass that returned last, and getCurrentNetworkId
\* answers the networkId of that entry while another pass is in flight.
C22_WholeEntry ==
    [][/\ marketsCache' = LastEntry'
       /\ getCurrentNetworkId => nidRead' = LastEntry.networkId]_vars

\* the network id read is the one a returned pass wrote with its markets
\* while an overlapping pass is fetching another network
C22_Witness ==
    /\ marketsCache.markets # <<>>
    /\ nidRead = marketsCache.networkId
    /\ \E c \in Callers : /\ InFlight(c)
                          /\ networks[gam[c].idx] # nidRead
                          /\ gam[c].now # marketsCache.timestamp

\* the networks whose endpoint call c has queried so far
QueriedBy(c) ==
    LET nets == NetsOf(gam[c].reqs) IN {nets[i] : i \in 1..Len(nets)}

\* C23: two calls that overlap share the fetch: no network's endpoint is
\* queried by both of them.
C23_OverlapSharesFetch ==
    \A c, d \in Callers :
        (c # d /\ InFlight(c) /\ InFlight(d))
            => QueriedBy(c) \cap QueriedBy(d) = {}

\* C24: a call that returns the cached list without fetching is made less
\* than CACHE_EXPIRATION after the entry's timestamp, and a call made at or
\* after timestamp + CACHE_EXPIRATION starts a pass.
C24_FreshHitsOnly ==
    [][/\ (Returns /\ JustReturned.nets = <<>>)
            => /\ JustReturned.result = marketsCache.markets
               /\ JustReturned.start - marketsCache.timestamp < CACHE_EXPIRATION
       /\ \A c \in Callers :
            (CallGetActiveMarkets(c)
                /\ clock >= marketsCache.timestamp + CACHE_EXPIRATION)
              => /\ gam'[c].pc = "direct"
                 /\ gam'[c].now = clock]_vars

\* a pass cached its markets, a call one tick later was answered from the
\* cache, and a call at the bound ran a pass of its own
C24_Witness ==
    /\ Len(history) = 3
    /\ history[1].nets # <<>> /\ history[1].result # <<>>
    /\ history[2].nets = <<>> /\ history[2].result = history[1].result
    /\ history[2].start = history[1].start + TickMillis
    /\ history[3].nets # <<>>
    /\ history[3].start = history[1].start + CACHE_EXPIRATION

----------------------------------------------------------------------------
(* Claims about placeBet's failures and getQuote *)

\* C25: a run given a provider whose wallet has no account connected
\* returns success = false with "Wallet not connected", and has asked the
\* wallet for nothing and called no contract.
C25_NoAccountNotConnected ==
    \A r \in Runs :
        (~accounts /\ bet[r].pc # "idle" /\ bet[r].args.provider)
            => /\ Done(r)
               /\ ~bet[r].result.success
               /\ bet[r].result.message = Msg("Wallet not connected", "", "")
               /\ ~InLog(r, "getSigner")
               /\ \A e \in ContractCalls : ~InLog(r, e)

\* C26: the message of a run that failed on the network test names the
\* network the market requires and the network the wallet is on: it has a
\* part built from each of the two, besides its fixed text.
C26_MessageNamesBothNetworks ==
    \A r \in Runs :
        (/\ Done(r)
         /\ bet[r].result.message.kind
                = "Please switch to the correct network to place this bet")
            => /\ bet[r].result.message.a # ""
               /\ bet[r].result.message.b # ""

\* C27: getQuote returns a value only when an endpoint answered with a
\* quote that has a numeric payout multiplier, and the value is that
\* answer; when every endpoint failed it returns none.
C27_QuoteOnlyFromEndpoint ==
    (quote.pc = "done" /\ quote.returned = "value")
        => LET last == quote.answers[Len(quote.answers)] IN
           /\ last.kind = "ok"
           /\ last.body.decimal # Absent
           /\ quote.value = last.body

----------------------------------------------------------------------------
(* Claims about the functions that keep no state *)

\* C28: a flat list of market records is flattened to that list, and a
\* grouping by sport then league to the concatenation of its league lists.
C28_FlattenEitherShape ==
    (calc.pc = "applied" /\ calc.op = "getMarketsForNetwork")
        => /\ calc.arg.shape = "flat" => calc.out = calc.arg.list
           /\ calc.arg.shape = "grouped"
                => calc.out = Concat([i \in 1..Len(calc.arg.sports) |->
                                        Concat(calc.arg.sports[i])])

\* the decimal price is the decimal of an integer American price
FromAmerican(d) == \E a \in AmericanPrices : americanToDecimal(a) = d

TransformNum(d) == IF d.num >= 2 * d.den THEN (d.num - d.den) * 100 ELSE -100 * d.den
TransformDen(d) == IF d.num >= 2 * d.den THEN d.den ELSE d.num - d.den

\* C30 as stated: decimalToAmerican(d) is (d - 1) * 100 for d >= 2 and
\* -100 / (d - 1) for 1 < d < 2.
C30_AsStated ==
    (calc.pc = "applied" /\ calc.op = "decimalToAmerican")
        => calc.out * TransformDen(calc.arg) = TransformNum(calc.arg)

\* C30: decimalToAmerican(d) is the integer nearest to (d - 1) * 100 for
\* d >= 2 and to -100 / (d - 1) for 1 < d < 2, a half going up; it is the
\* transform itself when that is an integer: 1.5 gives -200, 3.0 gives +200.
C30_NearestInteger ==
    (calc.pc = "applied" /\ calc.op = "decimalToAmerican")
        => LET p == TransformNum(calc.arg)
               q == TransformDen(calc.arg)
               twice == 2 * (p - calc.out * q)
           IN  /\ -q <= twice /\ twice < q
               /\ calc.arg = [num |-> 3, den |-> 2] => calc.out = -200
               /\ calc.arg = [num |-> 3, den |-> 1] => calc.out = 200

\* 1.5 was converted to -200
C30_Witness ==
    /\ calc.pc = "applied" /\ calc.op = "decimalToAmerican"
    /\ calc.arg = [num |-> 3, den |-> 2] /\ calc.out = -200

----------------------------------------------------------------------------
(* Further claims about getBigGame and the market functions *)

\* C31: getBigGame leaves the list getActiveMarkets returned, which is the
\* list the cache entry holds, as it was: same records, same order.
C31_ListUnchanged ==
    [][bg'.markets = bg.markets]_vars

Sent(request) ==
    {i \in 1..Len(calc.back) : calc.back[i].request = request}
\* the fetchApi call is waiting for its proxy request or has had its answer
ProxySent == calc.op = "fetchApi" /\ (calc.pc = "proxy" \/ Sent("proxy") # {})

\* C33: the proxy request is sent only after the direct request has failed
\* (fetch threw, the status was not ok, or json() threw on the body); a
\* call sends at most one direct and one proxy request; and it throws
\* exactly when both requests have failed.
C33_TwoStep ==
    calc.op = "fetchApi"
        => /\ ProxySent => /\ Len(calc.back) >= 1
                           /\ calc.back[1].request = "direct"
                           /\ calc.back[1].kind \in Failures
           /\ Cardinality(Sent("direct")) <= 1
           /\ Cardinality(Sent("proxy")) <= 1
           /\ calc.pc = "thrown"
                <=> /\ Len(calc.back) = 2
                    /\ \A i \in 1..2 : calc.back[i].kind # "ok"
           /\ calc.pc = "returned"
                => calc.back[Len(calc.back)].kind = "ok"

\* the direct request answered with a body that could not be parsed, the
\* proxy answered with a status that is not ok, and the call threw
C33_Witness ==
    /\ calc.op = "fetchApi" /\ calc.pc = "thrown"
    /\ calc.back = <<[request |-> "direct", kind |-> "badjson"],
                     [request |-> "proxy", kind |-> "notok"]>>

----------------------------------------------------------------------------
(* Claims about overlapping placeBet runs *)

\* C34: at the step in which a run's trade is submitted, the allowance
\* granted to the market maker is at least the stake of that run.
C34_AllowanceCoversStake ==
    [][\A r \in Runs :
          (bet[r].pc = "trade" /\ bet'[r].pc = "tradeWait")
              => allowance >= Stake(r)]_vars

----------------------------------------------------------------------------
(* Claims about overlapping getActiveMarkets calls and the network shown *)

\* C35: every write of the cache entry carries a timestamp that is not
\* smaller than the timestamp of the entry it replaces.
C35_TimestampNeverGoesBack ==
    [][marketsCache'.timestamp >= marketsCache.timestamp]_vars

\* market.networkId as placeBet reads it off a record of the list: absent
\* when the record has no such field
NetworkIdOf(market) ==
    IF "networkId" \in DOMAIN market THEN market.networkId ELSE Absent

\* C36: for every market of the list getActiveMarkets returns, which is the
\* list of the cache entry, the network placeBet requires (market.networkId,
\* or 8453 when absent) is the networkId of the cache entry, the network
\* the list was fetched from.
C36_RequiredIsFetchedNetwork ==
    \A i \in 1..Len(marketsCache.markets) :
        RequiredNetwork([networkId |-> NetworkIdOf(marketsCache.markets[i])])
            = marketsCache.networkId

----------------------------------------------------------------------------
(* Claims about the BettingForm and connectWallet *)

\* C37: while the form's isPlacingBet is set, one handleSubmit run is in
\* flight and at most one placeBet call of the form is pending; when it is
\* not set, none is.
C37_OneBetInFlight ==
    /\ form.placing <= 1
    /\ form.importing + form.placing = (IF form.isPlacingBet THEN 1 ELSE 0)

\* a second bet is being placed after the first one settled, and the
\* button is disabled although a team and an amount are chosen
C37_Witness ==
    /\ form.placing = 1 /\ form.submits = 2 /\ form.isPlacingBet
    /\ form.selectedTeam = "home" /\ form.betAmount = "5"
    /\ Disabled(form)

\* the network the list a call returns was fetched from: the last network
\* a pass queried, or for a cache hit the network of the pass whose entry
\* the cache holds
FetchedFrom(h) ==
    IF h.nets # <<>> THEN h.nets[Len(h.nets)] ELSE LastEntry.networkId

C39_ConnectedOnBase ==
    (conn.pc = "done" /\ conn.result = "account") => walletChain = BASE

====
